---- MODULE Spec2Model ----
(***************************************************************************)
(* The Asteroids game orchestrator (Game), its Ship and the deferred       *)
(* callbacks it schedules, as a state machine.                             *)
(*                                                                         *)
(* Time is in milliseconds.  Positions are not part of the state: whether  *)
(* two circles overlap in a frame (checkCollision) is an input of the      *)
(* frame, drawn for each bullet and for the ship as a set of indices into  *)
(* the asteroid array the corresponding forEach iterates.                  *)
(***************************************************************************)
EXTENDS Integers, Sequences, FiniteSets, TLC

VARIABLES
    score, highScore, lives, wave,
    gameOver, gameOverPending, paused,
    lastExtraLifeScore, initialAsteroidCount,
    gameOverTimer,      \* Game.gameOverTimer: "null" or "set"
    asteroids,          \* Game.asteroids: sequence of sizes
    bullets,            \* Game.bullets: sequence of [dist, isDead]
    ship,               \* Game.ship
    timers,             \* pending setTimeout callbacks of Game, in scheduling order
    beatOn,             \* audio.beatTimer of the current AudioManager is set
    audioListening,     \* the startAudio listeners are still registered
    pendingResets,      \* reset() calls suspended at `await this.audio.init()`
    elapsed,            \* wall-clock ms since the last frame (timers fired since)
    unsettledKills,     \* asteroids destroyed in this session while Unsettled (bounded)
    audio,              \* Game.audio, the current AudioManager
    replaced,           \* AudioManagers reset() replaced while a thrust timer of theirs ran
    sinceShot,          \* ms the ship was ticked since its last shot, up to SHOOT_DELAY
    pass                \* record of what the last handler did (observation only)

vars == <<score, highScore, lives, wave, gameOver, gameOverPending, paused,
          lastExtraLifeScore, initialAsteroidCount, gameOverTimer, asteroids,
          bullets, ship, timers, beatOn, audioListening, pendingResets,
          elapsed, unsettledKills, sinceShot, audio, replaced, pass>>

----------------------------------------------------------------------------
(* Bounds of the model *)

MaxOverlap == 2          \* indices 1..MaxOverlap of an asteroid array can overlap
MaxBullets == 1          \* the fire key is held only while fewer bullets are in flight
MaxWave == 2             \* no wave beyond this one is cleared
MaxPendingResets == 1    \* reset() is not called while that many are suspended
MaxTimers == 3           \* reset() is not called while more callbacks are pending
MaxUnsettledKills == 1   \* asteroids destroyed in a session while a callback of an
                         \* earlier session is pending or its reset() is suspended
MaxResetRecord == 7600   \* reset() is not called once highScore exceeds this
MaxReplaced == 1         \* reset() is not called once that many thrust timers were left behind

(* Program constants *)

INITIAL_LIVES == 3
GAME_OVER_DELAY == 3000
WAVE_CREATION_DELAY == 3000
BACKGROUND_BEAT_DELAY == 500
BASE_ASTEROIDS == 3
EXTRA_LIFE_SCORE == 10000
DEFAULT_HIGH_SCORE == 7500

SHOOT_DELAY == 200
INVULNERABILITY_TIME == 2000
DISINTEGRATION_TIME == 2000
RESPAWN_DELAY == 2000
PIECES_PER_DISINTEGRATION == 3
BULLET_SPEED == 500
BULLET_MAX_DISTANCE_PCT == 95
CanvasWidth == 800
CanvasHeight == 600

Sizes == {"large", "medium", "small"}
DeltaTimes == {1000}                 \* deltaTime of a frame, ms

Min2(a, b) == IF a < b THEN a ELSE b
SetMin(S) == CHOOSE x \in S : \A y \in S : x <= y

RemoveAt(s, i) == [j \in 1..(Len(s) - 1) |-> IF j < i THEN s[j] ELSE s[j + 1]]

RECURSIVE Repeat(_, _)
Repeat(x, n) == IF n <= 0 THEN << >> ELSE <<x>> \o Repeat(x, n - 1)

----------------------------------------------------------------------------
(* Ship *)

NewShip ==
    [ thrust |-> FALSE, visible |-> TRUE,
      isInvulnerable |-> FALSE, invulnerabilityTimer |-> 0, shootTimer |-> 0,
      isDisintegrating |-> FALSE, disintegrationTimer |-> 0, pieces |-> 0,
      respawnTimer |-> 0, isGameOver |-> FALSE ]

(* src/src/ship.js has no setGameOver, which Game calls; it and the effect  *)
(* of the flag (no respawn once the game is over) follow the Ship test     *)
(* 'properly disintegrates during game over'.                              *)
setGameOver(s, flag) == [s EXCEPT !.isGameOver = flag]

respawnDelay(s) == IF s.isGameOver THEN 0 ELSE RESPAWN_DELAY

ShipReset(s) ==
    [s EXCEPT !.thrust = FALSE, !.isInvulnerable = TRUE,
              !.invulnerabilityTimer = INVULNERABILITY_TIME,
              !.isDisintegrating = FALSE, !.disintegrationTimer = 0,
              !.visible = TRUE]

startDisintegration(s) ==
    [s EXCEPT !.isDisintegrating = TRUE, !.disintegrationTimer = 0,
              !.respawnTimer = 0, !.isInvulnerable = TRUE,
              !.invulnerabilityTimer = INVULNERABILITY_TIME,
              !.thrust = FALSE,
              !.pieces = @ + PIECES_PER_DISINTEGRATION]

updateDisintegration(s, dt) ==
    IF s.isDisintegrating
    THEN LET t == s.disintegrationTimer + dt IN
         IF t >= DISINTEGRATION_TIME
         THEN [s EXCEPT !.disintegrationTimer = t, !.isDisintegrating = FALSE,
                        !.pieces = 0, !.visible = FALSE,
                        !.respawnTimer = respawnDelay(s),
                        !.isInvulnerable = TRUE,
                        !.invulnerabilityTimer = INVULNERABILITY_TIME]
         ELSE [s EXCEPT !.disintegrationTimer = t]
    ELSE IF s.respawnTimer > 0
    THEN LET r == s.respawnTimer - dt IN
         IF r <= 0
         THEN ShipReset([s EXCEPT !.respawnTimer = r])
         ELSE [s EXCEPT !.respawnTimer = r]
    ELSE s

handleThrust(s, keys) == [s EXCEPT !.thrust = keys.up]

updateTimers(s, dt) ==
    LET s1 == IF s.shootTimer > 0 THEN [s EXCEPT !.shootTimer = @ - dt] ELSE s
    IN IF s1.isInvulnerable
       THEN IF s1.invulnerabilityTimer - dt <= 0
            THEN [s1 EXCEPT !.isInvulnerable = FALSE, !.invulnerabilityTimer = 0]
            ELSE [s1 EXCEPT !.invulnerabilityTimer = @ - dt]
       ELSE s1

ShipUpdate(s, dt, keys) ==
    LET s1 == updateDisintegration(s, dt)
        s2 == IF ~s1.isDisintegrating /\ s1.visible THEN handleThrust(s1, keys) ELSE s1
    IN updateTimers(s2, dt)

CanShoot(s) == s.shootTimer <= 0 /\ ~s.isDisintegrating /\ s.visible

NewBullet == [dist |-> 0, isDead |-> FALSE]

(* shoot(): the ship it leaves and the bullet it returns, << >> for null *)
shoot_ignoresCooldown(s) ==
    IF ~s.isDisintegrating /\ s.visible
    THEN [ship |-> [s EXCEPT !.shootTimer = SHOOT_DELAY], bullet |-> <<NewBullet>>]
    ELSE [ship |-> s, bullet |-> << >>]

shoot_restartsCooldown(s) ==
    IF CanShoot(s)
    THEN [ship |-> [s EXCEPT !.shootTimer = SHOOT_DELAY], bullet |-> <<NewBullet>>]
    ELSE [ship |-> [s EXCEPT !.shootTimer = SHOOT_DELAY], bullet |-> << >>]

shoot(s) ==
    IF CanShoot(s)
    THEN [ship |-> [s EXCEPT !.shootTimer = SHOOT_DELAY], bullet |-> <<NewBullet>>]
    ELSE [ship |-> s, bullet |-> << >>]

----------------------------------------------------------------------------
(* Bullet *)

MaxDistance == (Min2(CanvasWidth, CanvasHeight) * BULLET_MAX_DISTANCE_PCT) \div 100

(* a step that does not cross a screen edge *)
BulletUpdate(b, dt) ==
    LET d == b.dist + (BULLET_SPEED * dt) \div 1000
    IN [b EXCEPT !.dist = d, !.isDead = b.isDead \/ d >= MaxDistance]

(* The bullet with its position, in whole pixels; velocity in pixels per   *)
(* second, deltaTime in ms.  covered observes the flight: the sum over the *)
(* ticks of the larger of the two axis distances covered on the screen, a  *)
(* lower bound of the length of the path (exact along an axis).            *)
Abs(n) == IF n < 0 THEN -n ELSE n

Max2(a, b) == IF a > b THEN a ELSE b

Sqrt(n) == CHOOSE r \in 0..n : r * r <= n /\ n < (r + 1) * (r + 1)

BulletAt(x, y, velocityX, velocityY) ==
    [ x |-> x, y |-> y, velocity |-> [x |-> velocityX, y |-> velocityY],
      prevX |-> x, prevY |-> y, distanceTraveled |-> 0, isDead |-> FALSE,
      covered |-> 0 ]

updatePosition(b, dt) ==
    [b EXCEPT !.prevX = b.x, !.prevY = b.y,
              !.x = b.x + (b.velocity.x * dt) \div 1000,
              !.y = b.y + (b.velocity.y * dt) \div 1000]

addDistanceTraveled(b, dx, dy) ==
    [b EXCEPT !.distanceTraveled =
                 @ + (IF dy = 0 THEN Abs(dx)
                      ELSE IF dx = 0 THEN Abs(dy)
                      ELSE Sqrt(dx * dx + dy * dy))]

handleScreenWrapping(b, width, height) ==
    LET b1 == IF b.x < 0
              THEN [addDistanceTraveled(b, b.prevX, 0) EXCEPT !.x = width]
              ELSE IF b.x > width
              THEN [addDistanceTraveled(b, width - b.prevX, 0) EXCEPT !.x = 0]
              ELSE addDistanceTraveled(b, Abs(b.x - b.prevX), 0)
    IN IF b1.y < 0
       THEN [addDistanceTraveled(b1, 0, b1.prevY) EXCEPT !.y = height]
       ELSE IF b1.y > height
       THEN [addDistanceTraveled(b1, 0, height - b1.prevY) EXCEPT !.y = 0]
       ELSE addDistanceTraveled(b1, 0, Abs(b1.y - b1.prevY))

checkExpiration(b, width, height) ==
    IF b.distanceTraveled >= (Min2(width, height) * BULLET_MAX_DISTANCE_PCT) \div 100
    THEN [b EXCEPT !.isDead = TRUE] ELSE b

(* the distance along one axis from prev to where the screen ends or the   *)
(* step does                                                               *)
OnScreen(prev, new, size) ==
    IF new < 0 THEN Abs(prev) ELSE IF new > size THEN Abs(size - prev) ELSE Abs(new - prev)

(* Bullet.update with the bullet's position *)
BulletFlight(b, dt, width, height) ==
    LET b1 == updatePosition(b, dt)
        b2 == checkExpiration(handleScreenWrapping(b1, width, height), width, height)
    IN [b2 EXCEPT !.covered = @ + Max2(OnScreen(b1.prevX, b1.x, width),
                                       OnScreen(b1.prevY, b1.y, height))]

----------------------------------------------------------------------------
(* AudioManager *)

(* A voice of a pool is [isPlaying, startTime].  The buffer sources that   *)
(* were started and have not ended yet are kept in start order, each with  *)
(* the pool and the voice whose onended handler it carries; stopped is set *)
(* once stop() was called on it.  now is context.currentTime; tones holds  *)
(* the tones playNextBeat asked for since the beat was started, started    *)
(* counts the sources started since construction.                          *)

SoundKeys ==
    {"beat1", "beat2", "fire", "bangLarge", "bangMedium", "bangSmall",
     "waveEnd", "thrust", "extraLife"}

soundConfig ==
    [key \in SoundKeys |->
        IF key \in {"fire", "bangLarge", "bangMedium", "bangSmall"} THEN 4 ELSE 2]

baseInterval == 1000
minInterval == 250

FreeVoice == [isPlaying |-> FALSE, startTime |-> 0]

(* constructor; a test-mode manager has no context and mock pools *)
AudioManager(isTest) ==
    [ isTest |-> isTest,
      initialized |-> FALSE, initializationAttempted |-> FALSE, loading |-> FALSE,
      buffers |-> [key \in SoundKeys |-> "none"],
      pools |-> [key \in SoundKeys |->
                    IF isTest THEN Repeat(FreeVoice, soundConfig[key]) ELSE << >>],
      beatInterval |-> baseInterval, beatTimer |-> FALSE, currentBeat |-> 0,
      thrustTimer |-> FALSE,
      sources |-> << >>, started |-> 0, now |-> 0, tones |-> << >> ]

NewAudioManager == AudioManager(FALSE)

createPool_again(a, key, size) ==
    [a EXCEPT !.pools[key] = @ \o Repeat(FreeVoice, size + 1)]

createPool(a, key, size) ==
    [a EXCEPT !.pools[key] = @ \o Repeat(FreeVoice, size)]

createSilentFallback_none(a, key) == [a EXCEPT !.buffers[key] = "silent"]

createSilentFallback(a, key) ==
    createPool([a EXCEPT !.buffers[key] = "silent"], key, soundConfig[key])

(* loadSound tries the path variations in turn; outcomes gives for each    *)
(* what the fetch did: "loaded", "notOk" (response.ok false) or "throws"   *)
(* (fetch or decodeAudioData rejects).  The first path that loads creates  *)
(* the pool; when none does the silent fallback creates it.                *)
LoadOutcomes == {"loaded", "notOk", "throws"}

RECURSIVE loadSound(_, _, _)
loadSound(a, key, outcomes) ==
    IF outcomes = << >> THEN createSilentFallback(a, key)
    ELSE IF Head(outcomes) = "loaded"
         THEN createPool([a EXCEPT !.buffers[key] = "sound"], key, soundConfig[key])
    ELSE loadSound(a, key, Tail(outcomes))

RECURSIVE loadSounds(_, _, _)
loadSounds(a, keys, outcomes) ==
    IF keys = {} THEN a
    ELSE LET key == CHOOSE k \in keys : TRUE
         IN loadSounds(loadSound(a, key, outcomes[key]), keys \ {key}, outcomes)

(* init() up to its first await, and its continuation once every sound    *)
(* has settled.  Without a context (test mode) no sound can be decoded and *)
(* the fallback throws before it creates a pool: init() logs the error.    *)
initBegin(a) ==
    IF a.initialized \/ a.initializationAttempted THEN a
    ELSE [a EXCEPT !.initializationAttempted = TRUE, !.loading = TRUE]

initEnd(a, outcomes) ==
    IF a.isTest THEN [a EXCEPT !.loading = FALSE]
    ELSE [loadSounds(a, SoundKeys, outcomes) EXCEPT !.initialized = TRUE,
                                                    !.loading = FALSE]

findNonPlayingNode(pool) ==
    IF \E v \in 1..Len(pool) : ~pool[v].isPlaying
    THEN CHOOSE v \in 1..Len(pool) :
            /\ ~pool[v].isPlaying
            /\ \A u \in 1..(v - 1) : pool[u].isPlaying
    ELSE 0

findOldestNode(pool) ==
    CHOOSE v \in 1..Len(pool) :
       /\ \A u \in 1..Len(pool) : pool[v].startTime <= pool[u].startTime
       /\ \A u \in 1..(v - 1) : pool[v].startTime < pool[u].startTime

getAvailableNode(pool) ==
    IF Len(pool) = 0 THEN 0
    ELSE IF findNonPlayingNode(pool) # 0 THEN findNonPlayingNode(pool)
    ELSE findOldestNode(pool)

(* prepareNodeForPlayback and source.start(0); without a context the    *)
(* voice is left as it is and the mock source starts nothing.             *)
prepareNodeForPlayback(a, key, v) ==
    IF a.isTest THEN a
    ELSE
    [a EXCEPT !.pools[key][v] = [isPlaying |-> TRUE, startTime |-> a.now],
              !.sources = Append(@, [key |-> key, voice |-> v, stopped |-> FALSE]),
              !.started = @ + 1]

playSound(a, key) ==
    IF key \notin DOMAIN a.pools THEN a
    ELSE LET v == getAvailableNode(a.pools[key])
         IN IF v = 0 THEN a ELSE prepareNodeForPlayback(a, key, v)

(* the source a voice holds: the last one started on it *)
CurrentSource(a, key, v) ==
    LET mine == {i \in 1..Len(a.sources) :
                    a.sources[i].key = key /\ a.sources[i].voice = v}
    IN IF mine = {} THEN 0 ELSE CHOOSE i \in mine : \A j \in mine : j <= i

(* source.onended of the i-th live source *)
onended(a, i) ==
    LET s == a.sources[i]
    IN [a EXCEPT !.pools[s.key][s.voice].isPlaying = FALSE,
                 !.sources = RemoveAt(@, i)]

(* Sources of one pool play the same buffer, so they end in the order they *)
(* were started unless stop() ended one early.                             *)
CanEnd(a, i) ==
    \/ a.sources[i].stopped
    \/ \A j \in 1..(i - 1) :
          a.sources[j].key = a.sources[i].key => a.sources[j].stopped

stopSoundInPool(a, key) ==
    LET pool == a.pools[key]
        halted == {CurrentSource(a, key, v) : v \in {u \in 1..Len(pool) : pool[u].isPlaying}}
    IN [a EXCEPT !.pools[key] = [v \in 1..Len(pool) |-> [pool[v] EXCEPT !.isPlaying = FALSE]],
                 !.sources = [i \in 1..Len(@) |->
                                 IF i \in halted THEN [@[i] EXCEPT !.stopped = TRUE]
                                 ELSE @[i]]]

stopThrustSound(a) == stopSoundInPool([a EXCEPT !.thrustTimer = FALSE], "thrust")

playThrustSoundOnce(a) == playSound(a, "thrust")

playThrustSound(a) ==
    IF a.isTest
    THEN [playThrustSoundOnce(a) EXCEPT !.thrustTimer = TRUE,
                                        !.pools["thrust"][2].isPlaying = TRUE]
    ELSE [playThrustSoundOnce(stopThrustSound(a)) EXCEPT !.thrustTimer = TRUE]

playNextBeat(a) ==
    LET beatSoundKey == IF a.currentBeat = 0 THEN "beat1" ELSE "beat2"
    IN [playSound(a, beatSoundKey) EXCEPT
            !.currentBeat = 1 - a.currentBeat,
            !.beatTimer = TRUE,
            !.tones = IF a.tones = << >> THEN <<beatSoundKey>>
                      ELSE <<a.tones[Len(a.tones)], beatSoundKey>>]

startBeatSequence(a) == playNextBeat([a EXCEPT !.currentBeat = 0])

stopBeat(a) == [a EXCEPT !.beatTimer = FALSE]

startBeat(a) ==
    startBeatSequence([stopBeat(a) EXCEPT !.beatInterval = baseInterval,
                                           !.tones = << >>])

calculateNewBeatInterval(remaining, total) ==
    LET slower == baseInterval - ((total - remaining) * (baseInterval - minInterval)) \div total
    IN IF slower < minInterval THEN minInterval ELSE slower

updateBeatInterval(a, remaining, total) ==
    LET a1 == [a EXCEPT !.beatInterval = calculateNewBeatInterval(remaining, total)]
    IN IF a1.beatTimer THEN startBeatSequence(stopBeat(a1)) ELSE a1

(* stopAllSounds: the timers are stopped, the context is closed, which    *)
(* halts every source, and init() is called once more.                     *)
stopAllSounds(a) ==
    LET a1 == stopThrustSound(stopBeat(a))
    IN IF a.isTest THEN a1
       ELSE initBegin([a1 EXCEPT !.sources =
                          [i \in 1..Len(@) |-> [@[i] EXCEPT !.stopped = TRUE]]])

----------------------------------------------------------------------------
(* Game: the operations work on a record of the Game object's fields.      *)
(* destroyed, shipHits, vulnerable and overlap observe a checkCollisions    *)
(* pass: the sizes destroyed in order, the ship's hits, whether the ship   *)
(* was vulnerable, and how many asteroids overlapped it.                   *)

Game ==
    [ score |-> score, highScore |-> highScore, lives |-> lives, wave |-> wave,
      gameOver |-> gameOver, gameOverPending |-> gameOverPending, paused |-> paused,
      lastExtraLifeScore |-> lastExtraLifeScore,
      initialAsteroidCount |-> initialAsteroidCount,
      gameOverTimer |-> gameOverTimer,
      asteroids |-> asteroids, bullets |-> bullets, ship |-> ship,
      timers |-> timers, beatOn |-> beatOn,
      destroyed |-> << >>, shipHits |-> 0, vulnerable |-> FALSE, overlap |-> 0 ]

Timer(kind, delay) == [kind |-> kind, remaining |-> delay, stale |-> FALSE]

setTimeout(g, kind, delay) == [g EXCEPT !.timers = Append(@, Timer(kind, delay))]

scores_swapped(size) ==
    CASE size = "large" -> 20
      [] size = "medium" -> 100
      [] size = "small" -> 50

scores(size) ==
    CASE size = "large" -> 20
      [] size = "medium" -> 50
      [] size = "small" -> 100

checkExtraLife_oneAtATime(g) ==
    IF g.score \div EXTRA_LIFE_SCORE > g.lastExtraLifeScore \div EXTRA_LIFE_SCORE
    THEN [g EXCEPT !.lives = @ + 1,
                   !.lastExtraLifeScore = (g.score \div EXTRA_LIFE_SCORE) * EXTRA_LIFE_SCORE]
    ELSE g

checkExtraLife(g) ==
    LET extraLivesEarned == g.score \div EXTRA_LIFE_SCORE
        newExtraLives == extraLivesEarned - (g.lastExtraLifeScore \div EXTRA_LIFE_SCORE)
    IN IF newExtraLives > 0
       THEN [g EXCEPT !.lives = @ + newExtraLives,
                      !.lastExtraLifeScore = extraLivesEarned * EXTRA_LIFE_SCORE]
       ELSE g

updateHighScore_always(g) == [g EXCEPT !.highScore = g.score]

updateHighScore(g) ==
    IF g.score > g.highScore THEN [g EXCEPT !.highScore = g.score] ELSE g

SplitChildren_single(size) ==
    CASE size = "large" -> <<"medium">>
      [] size = "medium" -> <<"small">>
      [] size = "small" -> << >>

SplitChildren(size) ==
    CASE size = "large" -> <<"medium", "medium">>
      [] size = "medium" -> <<"small", "small">>
      [] size = "small" -> << >>

stopBackgroundBeat(g) == [g EXCEPT !.beatOn = FALSE]

startBackgroundBeat(g) == [g EXCEPT !.beatOn = TRUE]

WaveCleared_atMostOneLeft(g) ==
    Len(g.asteroids) <= 1 /\ ~g.gameOver /\ ~g.gameOverPending

WaveCleared(g) ==
    Len(g.asteroids) = 0 /\ ~g.gameOver /\ ~g.gameOverPending

(* handleAsteroidDestruction(asteroid), the asteroid being g.asteroids[i] *)
handleAsteroidDestruction(g, i) ==
    LET size == g.asteroids[i]
        g1 == [g EXCEPT !.score = @ + scores(size)]
        g2 == updateHighScore(g1)
        g3 == checkExtraLife(g2)
        pushed == IF ~g3.gameOverPending /\ ~g3.gameOver
                  THEN g3.asteroids \o SplitChildren(size)
                  ELSE g3.asteroids
        g4 == [g3 EXCEPT !.asteroids = RemoveAt(pushed, i),
                         !.destroyed = Append(@, size)]
    IN IF WaveCleared(g4)
       THEN setTimeout(stopBackgroundBeat([g4 EXCEPT !.wave = @ + 1]),
                       "wave", WAVE_CREATION_DELAY)
       ELSE g4

createNewWave_appends(g) ==
    [g EXCEPT !.asteroids = @ \o Repeat("large", BASE_ASTEROIDS + g.wave),
              !.initialAsteroidCount = BASE_ASTEROIDS + g.wave]

createNewWave(g) ==
    [g EXCEPT !.asteroids = Repeat("large", BASE_ASTEROIDS + g.wave),
              !.initialAsteroidCount = BASE_ASTEROIDS + g.wave]

(* One forEach over a snapshot of the asteroid array: the elements at the  *)
(* indices H of the snapshot are hit, in ascending order.  k elements of   *)
(* the snapshot before the next one have been removed from g.asteroids.    *)
RECURSIVE DestroyHits(_, _, _)
DestroyHits(g, H, k) ==
    IF H = {} THEN g
    ELSE LET i == SetMin(H)
         IN DestroyHits(handleAsteroidDestruction(g, i - k), H \ {i}, k + 1)

RECURSIVE BulletLoop(_, _, _)
BulletLoop(g, b, hitsB) ==
    IF b > Len(g.bullets) THEN g
    ELSE LET H == hitsB[b] \cap (1..Len(g.asteroids))
             g1 == IF H = {} THEN g ELSE [g EXCEPT !.bullets[b].isDead = TRUE]
         IN BulletLoop(DestroyHits(g1, H, 0), b + 1, hitsB)

ScheduleGameOver(g) == setTimeout(g, "gameOver", GAME_OVER_DELAY)

(* the body of the ship loop for the asteroid g.asteroids[i] *)
ShipHit(g, i) ==
    LET g1 == [g EXCEPT !.lives = @ - 1, !.shipHits = @ + 1]
    IN IF g1.lives <= 0
       THEN LET g2 == [g1 EXCEPT !.gameOverPending = TRUE,
                                 !.ship = setGameOver(startDisintegration(@), TRUE)]
            IN handleAsteroidDestruction(ScheduleGameOver(stopBackgroundBeat(g2)), i)
       ELSE handleAsteroidDestruction([g1 EXCEPT !.ship = startDisintegration(@)], i)

RECURSIVE ShipLoop(_, _, _)
ShipLoop(g, H, k) ==
    IF H = {} THEN g
    ELSE LET i == SetMin(H)
         IN ShipLoop(ShipHit(g, i - k), H \ {i}, k + 1)

ShipCollidable_ignoresInvulnerability(g) == ~g.gameOver

ShipCollidable(g) == ~g.ship.isInvulnerable /\ ~g.gameOver

checkCollisions(g, hitsB, hitsS) ==
    LET g1 == BulletLoop(g, 1, hitsB)
        H == hitsS \cap (1..Len(g1.asteroids))
        g2 == [g1 EXCEPT !.vulnerable = ~g1.ship.isInvulnerable,
                         !.overlap = Cardinality(H)]
    IN IF ShipCollidable(g2) THEN ShipLoop(g2, H, 0) ELSE g2

updateShip(g, dt, keys) ==
    IF g.gameOverPending \/ g.gameOver THEN g
    ELSE LET s1 == ShipUpdate(g.ship, dt, keys)
         IN IF keys.space /\ s1.shootTimer <= 0
            THEN LET shot == shoot(s1)
                 IN [g EXCEPT !.ship = shot.ship, !.bullets = @ \o shot.bullet]
            ELSE [g EXCEPT !.ship = s1]

updateBullets(g, dt) ==
    LET alive == SelectSeq(g.bullets, LAMBDA b : ~b.isDead)
    IN [g EXCEPT !.bullets = [j \in 1..Len(alive) |-> BulletUpdate(alive[j], dt)]]

update(g, dt, keys, hitsB, hitsS) ==
    checkCollisions(updateBullets(updateShip(g, dt, keys), dt), hitsB, hitsS)

gameLoop(g, dt, keys, hitsB, hitsS) ==
    IF g.paused \/ g.gameOver THEN g
    ELSE update(g, dt, keys, hitsB, hitsS)

clearGameOverTimer(g) ==
    IF g.gameOverTimer # "null"
    THEN [g EXCEPT !.timers = SelectSeq(@, LAMBDA t : t.kind # "gameOver"),
                   !.gameOverTimer = "null"]
    ELSE g

(* reset() up to its await; the callbacks still pending belong to the      *)
(* session that ends here and are marked stale.                            *)
reset(g) ==
    LET g1 == clearGameOverTimer(
                [g EXCEPT !.score = 0, !.lives = INITIAL_LIVES,
                          !.gameOver = FALSE, !.gameOverPending = FALSE])
    IN [g1 EXCEPT !.paused = FALSE, !.wave = 1, !.initialAsteroidCount = 0,
                  !.lastExtraLifeScore = 0,
                  !.ship = setGameOver(NewShip, FALSE),
                  !.asteroids = << >>, !.bullets = << >>,
                  !.beatOn = FALSE,
                  !.timers = [j \in 1..Len(g1.timers) |-> [g1.timers[j] EXCEPT !.stale = TRUE]]]

(* the keydown listener of init() *)
keydown_always(g) == reset(g)

keydown(g) == IF g.gameOver THEN reset(g) ELSE g

(* the timer callbacks *)
gameOverCallback_keepsPending(g) ==
    stopBackgroundBeat([g EXCEPT !.gameOver = TRUE])

gameOverCallback(g) ==
    stopBackgroundBeat([g EXCEPT !.gameOver = TRUE, !.gameOverPending = FALSE])

waveCallback(g) == setTimeout(createNewWave(g), "beat", BACKGROUND_BEAT_DELAY)

beatCallback(g) ==
    IF ~g.gameOver /\ ~g.gameOverPending THEN startBackgroundBeat(g) ELSE g

runCallback(g, kind) ==
    CASE kind = "gameOver" -> gameOverCallback(g)
      [] kind = "wave" -> waveCallback(g)
      [] kind = "beat" -> beatCallback(g)

----------------------------------------------------------------------------
(* Actions *)

NoPass == [op |-> "none", destroyed |-> << >>, shipHits |-> 0,
           vulnerable |-> FALSE, overlap |-> 0, stale |-> FALSE]

Store(g) ==
    /\ score' = g.score
    /\ highScore' = g.highScore
    /\ lives' = g.lives
    /\ wave' = g.wave
    /\ gameOver' = g.gameOver
    /\ gameOverPending' = g.gameOverPending
    /\ paused' = g.paused
    /\ lastExtraLifeScore' = g.lastExtraLifeScore
    /\ initialAsteroidCount' = g.initialAsteroidCount
    /\ gameOverTimer' = g.gameOverTimer
    /\ asteroids' = g.asteroids
    /\ bullets' = g.bullets
    /\ ship' = g.ship
    /\ timers' = g.timers
    /\ beatOn' = g.beatOn

BlankGame ==
    [ score |-> 0, highScore |-> DEFAULT_HIGH_SCORE, lives |-> 0, wave |-> 0,
      gameOver |-> FALSE, gameOverPending |-> FALSE, paused |-> FALSE,
      lastExtraLifeScore |-> 0, initialAsteroidCount |-> 0,
      gameOverTimer |-> "null",
      asteroids |-> << >>, bullets |-> << >>, ship |-> NewShip,
      timers |-> << >>, beatOn |-> FALSE,
      destroyed |-> << >>, shipHits |-> 0, vulnerable |-> FALSE, overlap |-> 0 ]

(* The state the constructor leaves: reset() ran up to its await, the game *)
(* loop and the listeners are set up.                                      *)
Load(g) ==
    /\ score = g.score
    /\ highScore = g.highScore
    /\ lives = g.lives
    /\ wave = g.wave
    /\ gameOver = g.gameOver
    /\ gameOverPending = g.gameOverPending
    /\ paused = g.paused
    /\ lastExtraLifeScore = g.lastExtraLifeScore
    /\ initialAsteroidCount = g.initialAsteroidCount
    /\ gameOverTimer = g.gameOverTimer
    /\ asteroids = g.asteroids
    /\ bullets = g.bullets
    /\ ship = g.ship
    /\ timers = g.timers
    /\ beatOn = g.beatOn

Init ==
    /\ Load(reset(BlankGame))
    /\ audioListening = TRUE
    /\ pendingResets = 1
    /\ elapsed = 0
    /\ unsettledKills = 0
    /\ sinceShot = SHOOT_DELAY
    /\ audio = NewAudioManager
    /\ replaced = << >>
    /\ pass = NoPass

Observed(op, g, stale) ==
    [op |-> op, destroyed |-> g.destroyed, shipHits |-> g.shipHits,
     vulnerable |-> g.vulnerable, overlap |-> g.overlap, stale |-> stale]

Unsettled == pendingResets > 0 \/ \E j \in 1..Len(timers) : timers[j].stale

MaxDeltaTime == CHOOSE d \in DeltaTimes : \A e \in DeltaTimes : e <= d

AdvanceTimers(g, ms) ==
    [g EXCEPT !.timers = [j \in 1..Len(@) |-> [@[j] EXCEPT !.remaining = @ - ms]]]

(* The overlaps drawn for one forEach: the first n elements of the array *)
Overlaps(g) == {1..n : n \in 0..Min2(MaxOverlap, Len(g.asteroids))}

KeySets(g) ==
    [up : BOOLEAN, space : IF Len(g.bullets) < MaxBullets THEN BOOLEAN ELSE {FALSE}]

(* One requestAnimationFrame callback, deltaTime = dt: the callbacks due   *)
(* before it have run.                                                     *)
Frame ==
    \E dt \in DeltaTimes, keys \in KeySets(Game) :
      LET adv == dt - elapsed
          g0 == AdvanceTimers(Game, adv)
          running == ~g0.paused /\ ~g0.gameOver
          pre == updateBullets(updateShip(g0, dt, keys), dt)
      IN /\ adv >= 0
         /\ \A j \in 1..Len(timers) : timers[j].remaining > adv
         /\ \E hitsB \in [1..(IF running THEN Len(pre.bullets) ELSE 0) -> Overlaps(pre)],
               hitsS \in (IF running THEN Overlaps(pre) ELSE {{}}) :
              LET g == gameLoop(g0, dt, keys, hitsB, hitsS)
              IN /\ g.wave # g0.wave => g.wave <= MaxWave
                 /\ unsettledKills' = unsettledKills + (IF Unsettled THEN Len(g.destroyed) ELSE 0)
                 /\ unsettledKills' <= MaxUnsettledKills
                 /\ Store(g)
                 /\ pass' = Observed("frame", g, FALSE)
         /\ elapsed' = 0
         /\ sinceShot' = IF ~running \/ g0.gameOverPending THEN sinceShot
                          ELSE IF Len(updateShip(g0, dt, keys).bullets) > Len(g0.bullets)
                          THEN 0
                          ELSE Min2(sinceShot + dt, SHOOT_DELAY)
         /\ UNCHANGED <<audio, replaced, audioListening, pendingResets>>

(* A callback scheduled by a callback of an ended session belongs to that  *)
(* session too: the timers after the first n of g are marked like it.      *)
Inherit(g, n, stale) ==
    [g EXCEPT !.timers = [j \in 1..Len(@) |->
                             IF j > n /\ stale THEN [@[j] EXCEPT !.stale = TRUE] ELSE @[j]]]

(* The setTimeout callback that is due first runs. *)
FireTimer ==
    /\ Len(timers) > 0
    /\ LET r == SetMin({timers[j].remaining : j \in 1..Len(timers)})
           i == SetMin({j \in 1..Len(timers) : timers[j].remaining = r})
           g0 == [AdvanceTimers(Game, r) EXCEPT !.timers = RemoveAt(@, i)]
           g == Inherit(runCallback(g0, timers[i].kind), Len(g0.timers), timers[i].stale)
       IN /\ elapsed + r <= MaxDeltaTime
          /\ Store(g)
          /\ elapsed' = elapsed + r
          /\ pass' = Observed(timers[i].kind, g, timers[i].stale)
    /\ UNCHANGED <<audio, replaced, audioListening, pendingResets, unsettledKills, sinceShot>>

(* reset() assigns a new AudioManager to this.audio; nothing stops the    *)
(* timers of the one it replaces.                                          *)
Abandon(a, olds) == IF a.thrustTimer THEN Append(olds, a) ELSE olds

(* reset() called by the page (start and restart buttons) *)
Reset ==
    /\ Len(replaced) < MaxReplaced
    /\ pendingResets < MaxPendingResets
    /\ highScore <= MaxResetRecord
    /\ Len(timers) <= MaxTimers
    /\ Store(reset(Game))
    /\ pendingResets' = pendingResets + 1
    /\ unsettledKills' = 0
    /\ sinceShot' = SHOOT_DELAY
    /\ pass' = Observed("reset", Game, FALSE)
    /\ audio' = NewAudioManager
    /\ replaced' = Abandon(audio, replaced)
    /\ UNCHANGED <<audioListening, elapsed>>

(* A keydown event reaches the listener of init(): where it calls reset(), *)
(* that reset() runs up to its await.                                      *)
KeyDown ==
    /\ pendingResets < MaxPendingResets
    /\ Len(replaced) < MaxReplaced
    /\ highScore <= MaxResetRecord
    /\ Len(timers) <= MaxTimers
    /\ LET g == keydown(Game)
       IN IF g # Game
          THEN /\ Store(g)
               /\ pendingResets' = pendingResets + 1
               /\ unsettledKills' = 0
               /\ sinceShot' = SHOOT_DELAY
               /\ pass' = Observed("keydown", Game, FALSE)
               /\ audio' = NewAudioManager
               /\ replaced' = Abandon(audio, replaced)
               /\ UNCHANGED <<audioListening, elapsed>>
          ELSE UNCHANGED vars

(* audio.init() has settled and reset() continues after its await *)
ResetResume ==
    /\ pendingResets > 0
    /\ Store(createNewWave(Game))
    /\ pendingResets' = pendingResets - 1
    /\ pass' = Observed("resetDone", Game, FALSE)
    /\ UNCHANGED <<audio, replaced, audioListening, elapsed, unsettledKills, sinceShot>>

Stop ==
    /\ Store(stopBackgroundBeat([Game EXCEPT !.paused = TRUE]))
    /\ pass' = Observed("other", Game, FALSE)
    /\ UNCHANGED <<audio, replaced, audioListening, pendingResets, elapsed, unsettledKills, sinceShot>>

(* the startAudio listener (keydown, click, touchstart) *)
StartAudio ==
    /\ audioListening
    /\ Store(IF ~gameOver /\ ~gameOverPending THEN startBackgroundBeat(Game) ELSE Game)
    /\ audioListening' = (pendingResets > 0)
    /\ pass' = Observed("other", Game, FALSE)
    /\ UNCHANGED <<audio, replaced, pendingResets, elapsed, unsettledKills, sinceShot>>

Next ==
    \/ Frame
    \/ FireTimer
    \/ Reset
    \/ KeyDown
    \/ ResetResume
    \/ Stop
    \/ StartAudio

Spec == Init /\ [][Next]_vars

(* Games in progress late in waves 3 and 4, no life lost and no callback   *)
(* pending.  A large asteroid and its descendants are worth                *)
(* 20 + 2*50 + 4*100 = 520 points and wave n spawns BASE_ASTEROIDS + n of  *)
(* them: wave 3 starts at 520*(4+5) = 4680 and, with all but 4 small       *)
(* asteroids of its 6 large ones destroyed, stands at 4680 + 6*520 - 400;  *)
(* wave 4 starts at 7800 and, with 4 of its 7 large ones gone with all     *)
(* their descendants, stands at 7800 + 4*520.                              *)
LateGames ==
    { [w |-> 3, rocks |-> <<"small", "small", "small", "small">>, score |-> 7400],
      [w |-> 4, rocks |-> <<"large", "large", "large">>, score |-> 9880] }

LateGame(m) ==
    LET g == createNewWave([reset(BlankGame) EXCEPT !.wave = m.w])
    IN updateHighScore([g EXCEPT !.score = m.score, !.asteroids = m.rocks,
                                 !.beatOn = TRUE])

InitScore ==
    \/ Init
    \/ /\ \E m \in LateGames : Load(LateGame(m))
       /\ audioListening = FALSE
       /\ pendingResets = 0
       /\ elapsed = 0
       /\ unsettledKills = 0
       /\ sinceShot = SHOOT_DELAY
       /\ audio = NewAudioManager
       /\ replaced = << >>
       /\ pass = [NoPass EXCEPT !.op = "frame"]

SpecScore == InitScore /\ [][Next]_vars

----------------------------------------------------------------------------
(* The Ship on its own, driven as its tests drive it: update() with short  *)
(* ticks, shoot() and startDisintegration() in any order.  The bullets     *)
(* returned are not kept.                                                  *)

TickTimes == {50, 150}

gameVars ==
    <<score, highScore, lives, wave, gameOver, gameOverPending, paused,
      lastExtraLifeScore, initialAsteroidCount, gameOverTimer,
      asteroids, bullets, timers, beatOn, audioListening,
      pendingResets, elapsed, unsettledKills, audio, replaced>>

ShipTick ==
    \E dt \in TickTimes, keys \in [up : BOOLEAN, space : BOOLEAN] :
       /\ ship' = ShipUpdate(ship, dt, keys)
       /\ sinceShot' = Min2(sinceShot + dt, SHOOT_DELAY)
       /\ pass' = [NoPass EXCEPT !.op = "tick"]
       /\ UNCHANGED gameVars

ShipShoot ==
    LET shot == shoot(ship)
    IN /\ ship' = shot.ship
       /\ sinceShot' = IF shot.bullet # << >> THEN 0 ELSE sinceShot
       /\ pass' = [NoPass EXCEPT !.op = IF shot.bullet # << >> THEN "shot" ELSE "noshot"]
       /\ UNCHANGED gameVars

ShipStruck ==
    /\ ~ship.isDisintegrating
    /\ ship' = startDisintegration(ship)
    /\ pass' = [NoPass EXCEPT !.op = "struck"]
    /\ UNCHANGED <<gameVars, sinceShot>>

NextShip ==
    \/ ShipTick
    \/ ShipShoot
    \/ ShipStruck

SpecShip == Init /\ [][NextShip]_vars

----------------------------------------------------------------------------
(* A Bullet on its own: created at a place and with a velocity, then       *)
(* updated as Game.updateBullets does until it is dead and filtered out.   *)

BulletPlaces == [x : {0, 400, CanvasWidth}, y : {0, 300, CanvasHeight}]

BulletVelocities ==
    { [x |-> BULLET_SPEED, y |-> 0], [x |-> -BULLET_SPEED, y |-> 0],
      [x |-> 0, y |-> BULLET_SPEED], [x |-> 0, y |-> -BULLET_SPEED],
      [x |-> 300, y |-> 400], [x |-> -400, y |-> -300] }

BulletTicks == {10, 100}

InitBullet ==
    /\ \E p \in BulletPlaces, v \in BulletVelocities :
          Load([reset(BlankGame) EXCEPT !.bullets = <<BulletAt(p.x, p.y, v.x, v.y)>>])
    /\ audioListening = TRUE
    /\ pendingResets = 1
    /\ elapsed = 0
    /\ unsettledKills = 0
    /\ sinceShot = SHOOT_DELAY
    /\ audio = NewAudioManager
    /\ replaced = << >>
    /\ pass = NoPass

bulletRest ==
    <<score, highScore, lives, wave, gameOver, gameOverPending, paused,
      lastExtraLifeScore, initialAsteroidCount, gameOverTimer,
      asteroids, ship, timers, beatOn, audioListening,
      pendingResets, elapsed, unsettledKills, sinceShot, audio, replaced>>

BulletTick ==
    \E dt \in BulletTicks :
       /\ bullets # << >>
       /\ ~bullets[1].isDead
       /\ bullets' = <<BulletFlight(bullets[1], dt, CanvasWidth, CanvasHeight)>>
       /\ pass' = [NoPass EXCEPT !.op = "bullet"]
       /\ UNCHANGED bulletRest

BulletFilter ==
    /\ bullets # << >>
    /\ bullets[1].isDead
    /\ bullets' = << >>
    /\ pass' = [NoPass EXCEPT !.op = "filter"]
    /\ UNCHANGED bulletRest

NextBullet ==
    \/ BulletTick
    \/ BulletFilter

SpecBullet == InitBullet /\ [][NextBullet]_vars

----------------------------------------------------------------------------
(* The AudioManager on its own, driven as Game and its tests drive it: any *)
(* of its methods in any order, timers and source events in between.       *)

MaxClock == 1            \* context.currentTime does not pass this
MaxStarted == 3          \* no sound is asked for once that many sources were started
PathVariations == 6

PlayKeys == {"waveEnd", "laser"}             \* "laser" has no pool
FailingSets == {{}, {"waveEnd", "beat1"}, SoundKeys}   \* assets that fail to load
WaveSizes == {1}                             \* initialAsteroidCount

audioRest ==
    <<score, highScore, lives, wave, gameOver, gameOverPending, paused,
      lastExtraLifeScore, initialAsteroidCount, gameOverTimer,
      asteroids, bullets, ship, timers, beatOn, audioListening,
      pendingResets, elapsed, unsettledKills, sinceShot, replaced>>

InitAudio ==
    /\ Load(reset(BlankGame))
    /\ audioListening = TRUE
    /\ pendingResets = 1
    /\ elapsed = 0
    /\ unsettledKills = 0
    /\ sinceShot = SHOOT_DELAY
    /\ \E isTest \in BOOLEAN : audio = AudioManager(isTest)
    /\ replaced = << >>
    /\ pass = NoPass

Quiet(a) == a.started < MaxStarted

(* every path of a failing asset fails the same way; the others load from *)
(* their second path                                                       *)
Outcomes(failing, bad) ==
    [key \in SoundKeys |->
        IF key \in failing THEN Repeat(bad, PathVariations) ELSE <<bad, "loaded">>]

AudioInit ==
    /\ audio' = initBegin(audio)
    /\ pass' = [NoPass EXCEPT !.op = "init"]
    /\ UNCHANGED audioRest

AudioLoaded ==
    \E failing \in FailingSets, bad \in LoadOutcomes \ {"loaded"} :
       /\ audio.loading
       /\ audio' = initEnd(audio, Outcomes(failing, bad))
       /\ pass' = [NoPass EXCEPT !.op = "loaded"]
       /\ UNCHANGED audioRest

PlaySound ==
    \E key \in PlayKeys :
       /\ Quiet(audio)
       /\ audio' = playSound(audio, key)
       /\ pass' = [NoPass EXCEPT !.op = "play"]
       /\ UNCHANGED audioRest

SourceEnded ==
    \E i \in 1..Len(audio.sources) :
       /\ CanEnd(audio, i)
       /\ audio' = onended(audio, i)
       /\ pass' = [NoPass EXCEPT !.op = "ended"]
       /\ UNCHANGED audioRest

StartBeat ==
    /\ Quiet(audio)
    /\ audio' = startBeat(audio)
    /\ pass' = [NoPass EXCEPT !.op = "beatStart"]
    /\ UNCHANGED audioRest

StopBeat ==
    /\ audio' = [stopBeat(audio) EXCEPT !.tones = << >>]
    /\ pass' = [NoPass EXCEPT !.op = "beatStop"]
    /\ UNCHANGED audioRest

BeatFires ==
    /\ audio.beatTimer
    /\ Quiet(audio)
    /\ audio' = playNextBeat(audio)
    /\ pass' = [NoPass EXCEPT !.op = "tone"]
    /\ UNCHANGED audioRest

UpdateBeat ==
    \E total \in WaveSizes : \E remaining \in 0..total :
       /\ Quiet(audio)
       /\ audio' = updateBeatInterval(audio, remaining, total)
       /\ pass' = [NoPass EXCEPT !.op = "interval"]
       /\ UNCHANGED audioRest

PlayThrust ==
    /\ Quiet(audio)
    /\ audio' = playThrustSound(audio)
    /\ pass' = [NoPass EXCEPT !.op = "thrust"]
    /\ UNCHANGED audioRest

StopThrust ==
    /\ audio' = stopThrustSound(audio)
    /\ pass' = [NoPass EXCEPT !.op = "thrustStop"]
    /\ UNCHANGED audioRest

ThrustFires ==
    /\ audio.thrustTimer
    /\ Quiet(audio)
    /\ audio' = playThrustSoundOnce(audio)
    /\ pass' = [NoPass EXCEPT !.op = "thrustTick"]
    /\ UNCHANGED audioRest

StopAll ==
    /\ audio' = [stopAllSounds(audio) EXCEPT !.tones = << >>]
    /\ pass' = [NoPass EXCEPT !.op = "stopAll"]
    /\ UNCHANGED audioRest

AudioClock ==
    /\ audio.now < MaxClock
    /\ audio' = [audio EXCEPT !.now = @ + 1]
    /\ pass' = [NoPass EXCEPT !.op = "clock"]
    /\ UNCHANGED audioRest

NextAudio ==
    \/ AudioInit
    \/ AudioLoaded
    \/ PlaySound
    \/ SourceEnded
    \/ StartBeat
    \/ StopBeat
    \/ BeatFires
    \/ UpdateBeat
    \/ PlayThrust
    \/ StopThrust
    \/ ThrustFires
    \/ StopAll
    \/ AudioClock

SpecAudio == InitAudio /\ [][NextAudio]_vars

----------------------------------------------------------------------------
(* The game with the thrust sound of its AudioManager: frames in which the *)
(* thrust key is up or down and the ship may be struck, the callbacks of   *)
(* Game and reset().  Nothing is fired, so asteroids go only by striking   *)
(* the ship.                                                               *)

(* Game.updateShip: the thrust sound after ship.update *)
thrustSound(a, prevThrust, thrust) ==
    IF thrust /\ ~prevThrust THEN playThrustSound(a)
    ELSE IF ~thrust /\ prevThrust THEN stopThrustSound(a)
    ELSE a

ThrustFrame ==
    \E dt \in DeltaTimes, up \in BOOLEAN :
      LET keys == [up |-> up, space |-> FALSE]
          adv == dt - elapsed
          g0 == AdvanceTimers(Game, adv)
          running == ~g0.paused /\ ~g0.gameOver
          pre == updateShip(g0, dt, keys)
          a1 == IF running /\ ~g0.gameOverPending
                THEN thrustSound(audio, g0.ship.thrust, pre.ship.thrust)
                ELSE audio
      IN /\ adv >= 0
         /\ \A j \in 1..Len(timers) : timers[j].remaining > adv
         /\ \E hitsS \in (IF running THEN Overlaps(pre) ELSE {{}}) :
              LET g == gameLoop(g0, dt, keys, << >>, hitsS)
                  struck == running /\ ShipCollidable(pre) /\ hitsS # {}
              IN /\ g.wave # g0.wave => g.wave <= MaxWave
                 /\ unsettledKills' = unsettledKills + (IF Unsettled THEN Len(g.destroyed) ELSE 0)
                 /\ unsettledKills' <= MaxUnsettledKills
                 /\ Store(g)
                 /\ audio' = IF struck /\ pre.ship.thrust THEN stopThrustSound(a1) ELSE a1
                 /\ pass' = Observed("frame", g, FALSE)
         /\ elapsed' = 0
         /\ sinceShot' = IF ~running \/ g0.gameOverPending THEN sinceShot
                          ELSE Min2(sinceShot + dt, SHOOT_DELAY)
         /\ UNCHANGED <<replaced, audioListening, pendingResets>>

NextThrust ==
    \/ ThrustFrame
    \/ FireTimer
    \/ Reset
    \/ KeyDown
    \/ ResetResume

SpecThrust == Init /\ [][NextThrust]_vars

----------------------------------------------------------------------------
(* Asteroids that split.  A velocity is held as its speed (pixels per      *)
(* second) and its direction (whole degrees, -179..180): the constructor   *)
(* takes both from the components with Math.hypot and Math.atan2 and       *)
(* writes the components back with Math.cos and Math.sin.                  *)

angleVariance == 45

SplitSpeeds == {52, 100}                 \* Math.random() * 50 + 50
SplitAngles == {0, 100, 180}             \* Math.random() * Math.PI * 2
Variances == {-45, 0, 44}                \* (Math.random() * 2 - 1) * angleVariance

Atan2(deg) ==
    LET d == deg % 360 IN IF d > 180 THEN d - 360 ELSE d

radii(size) ==
    CASE size = "large" -> 40
      [] size = "medium" -> 20
      [] size = "small" -> 10

(* new Asteroid(x, y, size, baseSpeed, angle) *)
NewAsteroid(x, y, size, baseSpeed, angle) ==
    [x |-> x, y |-> y, size |-> size, radius |-> radii(size),
     velocity |-> [speed |-> baseSpeed, angle |-> Atan2(angle)]]

Asteroid_sameSpeed(x, y, size, baseVelocity, variance) ==
    [x |-> x, y |-> y, size |-> size, radius |-> radii(size),
     velocity |-> [speed |-> baseVelocity.speed,
                   angle |-> Atan2(baseVelocity.angle + variance)]]

(* new Asteroid(x, y, size, null, null, baseVelocity); variance is what   *)
(* (Math.random() * 2 - 1) * angleVariance came to                         *)
Asteroid(x, y, size, baseVelocity, variance) ==
    [x |-> x, y |-> y, size |-> size, radius |-> radii(size),
     velocity |-> [speed |-> (baseVelocity.speed * 3) \div 2,
                   angle |-> Atan2(baseVelocity.angle + variance)]]

(* the asteroids handleAsteroidDestruction pushes for a destroyed one *)
Children(asteroid, variances) ==
    IF asteroid.size = "small" THEN << >>
    ELSE [i \in 1..2 |->
            Asteroid(asteroid.x, asteroid.y,
                     IF asteroid.size = "large" THEN "medium" ELSE "small",
                     asteroid.velocity, variances[i])]

(* In this specification an element of asteroids is an asteroid with the   *)
(* speed of the large one it comes from.                                   *)
splitRest ==
    <<score, highScore, lives, wave, gameOver, gameOverPending, paused,
      lastExtraLifeScore, initialAsteroidCount, gameOverTimer,
      bullets, ship, timers, beatOn, audioListening,
      pendingResets, elapsed, unsettledKills, sinceShot, audio, replaced>>

InitSplit ==
    /\ \E speed \in SplitSpeeds, angle \in SplitAngles :
          Load([reset(BlankGame) EXCEPT !.asteroids =
                  << [rock |-> NewAsteroid(400, 300, "large", speed, angle),
                      root |-> speed] >>])
    /\ audioListening = TRUE
    /\ pendingResets = 1
    /\ elapsed = 0
    /\ unsettledKills = 0
    /\ sinceShot = SHOOT_DELAY
    /\ audio = NewAudioManager
    /\ replaced = << >>
    /\ pass = NoPass

Split ==
    \E i \in 1..Len(asteroids), variances \in [1..2 -> Variances] :
       LET parent == asteroids[i]
           children == Children(parent.rock, variances)
       IN /\ asteroids' = RemoveAt(asteroids, i)
                            \o [j \in 1..Len(children) |->
                                  [rock |-> children[j], root |-> parent.root]]
          /\ pass' = [NoPass EXCEPT !.op = "split", !.overlap = i]
          /\ UNCHANGED splitRest

NextSplit == Split

SpecSplit == InitSplit /\ [][NextSplit]_vars

----------------------------------------------------------------------------
(* checkCollision on its own: an asteroid at the middle of the canvas and  *)
(* a bullet or the ship somewhere near it, moved about and tested.         *)
(* Positions and radii are whole pixels, so Math.sqrt is less than the sum *)
(* of the radii exactly when its integer part is.                          *)

checkCollision_touching(obj1, obj2) ==
    LET dx == obj1.x - obj2.x
        dy == obj1.y - obj2.y
        distance == Sqrt(dx * dx + dy * dy)
    IN distance <= obj1.radius + obj2.radius

checkCollision(obj1, obj2) ==
    LET dx == obj1.x - obj2.x
        dy == obj1.y - obj2.y
        distance == Sqrt(dx * dx + dy * dy)
    IN distance < obj1.radius + obj2.radius

(* In this specification bullets holds the one object tested against the  *)
(* asteroid: a circle with the radius of a Bullet (2) or of the Ship (15). *)
Body(x, y, radius) == [x |-> x, y |-> y, radius |-> radius]

BodyRadii == {2, 15}

NearPlaces ==
    [x : {358, 379, 400, 407, 412, 415, 422, 433, 434},
     y : {272, 300, 320, 324, 344}]

collideRest ==
    <<score, highScore, lives, wave, gameOver, gameOverPending, paused,
      lastExtraLifeScore, initialAsteroidCount, gameOverTimer,
      ship, timers, beatOn, audioListening,
      pendingResets, elapsed, unsettledKills, sinceShot, audio, replaced>>

InitCollide ==
    /\ \E size \in Sizes, p \in NearPlaces, radius \in BodyRadii :
          Load([reset(BlankGame) EXCEPT
                  !.asteroids = <<NewAsteroid(400, 300, size, 0, 0)>>,
                  !.bullets = <<Body(p.x, p.y, radius)>>])
    /\ audioListening = TRUE
    /\ pendingResets = 1
    /\ elapsed = 0
    /\ unsettledKills = 0
    /\ sinceShot = SHOOT_DELAY
    /\ audio = NewAudioManager
    /\ replaced = << >>
    /\ pass = NoPass

CollideMove ==
    \E p \in NearPlaces :
       /\ bullets' = <<[bullets[1] EXCEPT !.x = p.x, !.y = p.y]>>
       /\ pass' = [NoPass EXCEPT !.op = "moved"]
       /\ UNCHANGED <<asteroids, collideRest>>

(* the test both ways round: overlap for (object, asteroid), shipHits for  *)
(* (asteroid, object)                                                      *)
CollideTest ==
    /\ pass' = [NoPass EXCEPT
                  !.op = "collide",
                  !.overlap = IF checkCollision(bullets[1], asteroids[1]) THEN 1 ELSE 0,
                  !.shipHits = IF checkCollision(asteroids[1], bullets[1]) THEN 1 ELSE 0]
    /\ UNCHANGED <<asteroids, bullets, collideRest>>

NextCollide ==
    \/ CollideMove
    \/ CollideTest

SpecCollide == InitCollide /\ [][NextCollide]_vars

----------------------------------------------------------------------------
(* A wave and its background beat: asteroids are destroyed one at a time,  *)
(* in any order, and each destruction ends in updateBeatInterval with the  *)
(* length of the asteroid array and the wave's initial count.  Intervals   *)
(* are whole milliseconds, rounded up.  The asteroid destroyed is one of    *)
(* the first MaxBeatChoice of the array; waves up to MaxBeatWave are       *)
(* created.                                                                *)

MaxBeatWave == 2
MaxBeatChoice == 2

beatRest ==
    <<pendingResets, elapsed, unsettledKills, sinceShot, replaced>>

InitBeat ==
    /\ Load(createNewWave(reset(BlankGame)))
    /\ audioListening = TRUE
    /\ pendingResets = 0
    /\ elapsed = 0
    /\ unsettledKills = 0
    /\ sinceShot = SHOOT_DELAY
    /\ \E failing \in FailingSets :
          audio = initEnd(initBegin(NewAudioManager), Outcomes(failing, "notOk"))
    /\ replaced = << >>
    /\ pass = NoPass

BeatStartAudio ==
    /\ audioListening
    /\ Store(startBackgroundBeat(Game))
    /\ audio' = startBeat(audio)
    /\ audioListening' = FALSE
    /\ pass' = Observed("beatStart", Game, FALSE)
    /\ UNCHANGED beatRest

BeatDestroy ==
    \E i \in 1..Min2(Len(asteroids), MaxBeatChoice) :
       LET g == handleAsteroidDestruction(Game, i)
           a == updateBeatInterval(audio, Len(g.asteroids), initialAsteroidCount)
       IN /\ Store(g)
          /\ audio' = IF WaveCleared(g) THEN stopBeat(a) ELSE a
          /\ pass' = Observed("destroy", g, FALSE)
          /\ UNCHANGED <<audioListening, beatRest>>

BeatTimer ==
    /\ Len(timers) > 0
    /\ timers[1].kind = "wave" => wave <= MaxBeatWave
    /\ LET g == runCallback([Game EXCEPT !.timers = Tail(@)], timers[1].kind)
       IN /\ Store(g)
          /\ audio' = IF timers[1].kind = "beat" /\ g.beatOn
                      THEN startBeat(audio) ELSE audio
          /\ pass' = Observed(timers[1].kind, g, FALSE)
    /\ UNCHANGED <<audioListening, beatRest>>

NextBeat ==
    \/ BeatStartAudio
    \/ BeatDestroy
    \/ BeatTimer

SpecBeat == InitBeat /\ [][NextBeat]_vars

----------------------------------------------------------------------------
(* Movement and wrapping in Game.update: ship, bullet and asteroid are     *)
(* moved by their own update and then passed to wrapObject.  Positions in  *)
(* whole pixels, velocities in pixels per second, deltaTime in ms.  The    *)
(* ship coasts: no key is held and friction is left out.                   *)

WrapDeltaTimes == {500, 1000}

WrapPlaces == [x : {0, 20, 400, 780, 800}, y : {0, 300, 600}]

Directions == [x : {-1, 0, 1}, y : {-1, 0, 1}]

ShipSpeeds == {200, 400}

AsteroidSpeed == 100

Mover(x, y, radius, velocityX, velocityY) ==
    [x |-> x, y |-> y, radius |-> radius,
     velocity |-> [x |-> velocityX, y |-> velocityY]]

wrapObject(obj) ==
    LET x1 == IF obj.x < 0 THEN CanvasWidth ELSE obj.x
        x2 == IF x1 > CanvasWidth THEN 0 ELSE x1
        y1 == IF obj.y < 0 THEN CanvasHeight ELSE obj.y
        y2 == IF y1 > CanvasHeight THEN 0 ELSE y1
    IN [obj EXCEPT !.x = x2, !.y = y2]

(* Ship.updatePosition with wrapAroundScreen *)
shipUpdatePosition(s, dt, width, height) ==
    LET x0 == s.x + (s.velocity.x * dt) \div 1000
        y0 == s.y + (s.velocity.y * dt) \div 1000
        x1 == IF x0 < 0 THEN width ELSE x0
        x2 == IF x1 > width THEN 0 ELSE x1
        y1 == IF y0 < 0 THEN height ELSE y0
        y2 == IF y1 > height THEN 0 ELSE y1
    IN [s EXCEPT !.x = x2, !.y = y2]

(* Asteroid.update *)
asteroidUpdate(a, dt, width, height) ==
    LET x0 == a.x + (a.velocity.x * dt) \div 1000
        y0 == a.y + (a.velocity.y * dt) \div 1000
        x1 == IF x0 < -a.radius THEN width + a.radius ELSE x0
        x2 == IF x1 > width + a.radius THEN -a.radius ELSE x1
        y1 == IF y0 < -a.radius THEN height + a.radius ELSE y0
        y2 == IF y1 > height + a.radius THEN -a.radius ELSE y1
    IN [a EXCEPT !.x = x2, !.y = y2]

wrapRest ==
    <<score, highScore, lives, wave, gameOver, gameOverPending, paused,
      lastExtraLifeScore, initialAsteroidCount, gameOverTimer,
      timers, beatOn, audioListening,
      pendingResets, elapsed, unsettledKills, sinceShot, audio, replaced>>

InitWrap ==
    /\ \E p \in WrapPlaces, d \in Directions, size \in Sizes, speed \in ShipSpeeds :
          Load([reset(BlankGame) EXCEPT
                  !.ship = Mover(p.x, p.y, 15, d.x * speed, d.y * speed),
                  !.bullets = <<BulletAt(p.x, p.y, d.x * BULLET_SPEED, d.y * BULLET_SPEED)>>,
                  !.asteroids = <<Mover(p.x, p.y, radii(size),
                                        d.x * AsteroidSpeed, d.y * AsteroidSpeed)>>])
    /\ audioListening = TRUE
    /\ pendingResets = 0
    /\ elapsed = 0
    /\ unsettledKills = 0
    /\ sinceShot = SHOOT_DELAY
    /\ audio = NewAudioManager
    /\ replaced = << >>
    /\ pass = NoPass

WrapTick ==
    \E dt \in WrapDeltaTimes :
       LET flying == SelectSeq(bullets, LAMBDA b : ~b.isDead)
       IN /\ ship' = wrapObject(shipUpdatePosition(ship, dt, CanvasWidth, CanvasHeight))
          /\ bullets' = [j \in 1..Len(flying) |->
                           wrapObject(BulletFlight(flying[j], dt, CanvasWidth, CanvasHeight))]
          /\ asteroids' = [j \in 1..Len(asteroids) |->
                             wrapObject(asteroidUpdate(asteroids[j], dt, CanvasWidth, CanvasHeight))]
          /\ pass' = [NoPass EXCEPT !.op = "wrap", !.overlap = dt]
          /\ UNCHANGED wrapRest

NextWrap == WrapTick

SpecWrap == InitWrap /\ [][NextWrap]_vars

----------------------------------------------------------------------------
(* Which handler a (non-stuttering) step ran *)

FrameStep == pass'.op = "frame"
FiredStep(kind) == pass'.op = kind
ResetStep == pass'.op \in {"reset", "keydown"}

HasTimer(ts, kind, remaining) ==
    \E j \in 1..Len(ts) : ts[j].kind = kind /\ ts[j].remaining = remaining

----------------------------------------------------------------------------
(* C1: a frame whose ship-asteroid collision takes lives from above 0 to   *)
(* 0 or below leaves gameOverPending true and gameOver false, with the     *)
(* game-over callback scheduled GAME_OVER_DELAY ms ahead; gameOver turns   *)
(* true only when a game-over callback runs, and that callback leaves      *)
(* gameOver true and gameOverPending false.                                *)
C1_GameOverTransition ==
    [][ /\ (FrameStep /\ lives > 0 /\ lives' <= 0)
            => /\ gameOverPending' /\ ~gameOver'
               /\ HasTimer(timers', "gameOver", GAME_OVER_DELAY)
        /\ (~gameOver /\ gameOver') => FiredStep("gameOver")
        /\ FiredStep("gameOver") => (gameOver' /\ ~gameOverPending')
      ]_vars

C1_Witness ==
    /\ pass.op = "gameOver" /\ ~pass.stale
    /\ gameOver /\ ~gameOverPending /\ lives <= 0

----------------------------------------------------------------------------
(* C2: in the state in which a reset() call has completed, score = 0,      *)
(* lives = 3, wave = 1, gameOver, gameOverPending and paused are false,    *)
(* lastExtraLifeScore = 0, bullets is empty and asteroids holds exactly 4  *)
(* asteroids, all large.                                                   *)
C2_ResetPostState ==
    pass.op = "resetDone" =>
        /\ score = 0 /\ lives = 3 /\ wave = 1
        /\ ~gameOver /\ ~gameOverPending /\ ~paused
        /\ lastExtraLifeScore = 0
        /\ bullets = << >>
        /\ asteroids = <<"large", "large", "large", "large">>

----------------------------------------------------------------------------
(* C3: a reset() called while gameOverPending is true leaves gameOverTimer *)
(* null and no game-over callback pending, and no game-over callback       *)
(* scheduled before a reset() turns gameOver true after it.                *)
C3_ResetCancelsGameOver ==
    [][ /\ (ResetStep /\ gameOverPending)
            => /\ gameOverTimer' = "null"
               /\ \A j \in 1..Len(timers') : timers'[j].kind # "gameOver"
        /\ ~(FiredStep("gameOver") /\ pass'.stale /\ gameOver')
      ]_vars

----------------------------------------------------------------------------
(* C4: a wave-creation or beat-resume callback scheduled before a reset()  *)
(* changes nothing when it runs after it: asteroids, wave and the          *)
(* background beat are as they were.                                       *)
C4_StaleWaveCallbacksInert ==
    [][ ((FiredStep("wave") \/ FiredStep("beat")) /\ pass'.stale)
            => (asteroids' = asteroids /\ wave' = wave /\ beatOn' = beatOn)
      ]_vars

----------------------------------------------------------------------------
(* C5: one frame's checkCollisions pass lowers lives by at most 1, however *)
(* many asteroids overlap the ship, and lowers it only when the ship is    *)
(* vulnerable at the pass.                                                 *)
C5_OneDecrementPerPass ==
    [][ FrameStep => /\ lives' >= lives - 1
                     /\ (lives' < lives => pass'.vulnerable)
      ]_vars

----------------------------------------------------------------------------
(* C6: a checkCollisions pass made while ship.isInvulnerable is true hits  *)
(* the ship with no asteroid and does not lower lives, whatever number of  *)
(* asteroids overlap the ship; with no bullet in flight it leaves the      *)
(* asteroids as they were.                                                 *)
C6_InvulnerableShipUntouched ==
    [][ (FrameStep /\ ~pass'.vulnerable)
            => /\ pass'.shipHits = 0
               /\ lives' >= lives
               /\ (bullets' = << >> => asteroids' = asteroids)
      ]_vars

C6_Witness ==
    /\ pass.op = "frame" /\ ~pass.vulnerable /\ ship.isInvulnerable
    /\ ~paused /\ ~gameOver /\ ~gameOverPending
    /\ pass.overlap = 2 /\ pass.shipHits = 0 /\ bullets = << >>
    /\ lives = 2

----------------------------------------------------------------------------
(* The points per size, summed over the sizes destroyed *)
Points(size) ==
    IF size = "large" THEN 20 ELSE IF size = "medium" THEN 50 ELSE 100

RECURSIVE SumPoints(_)
SumPoints(sizes) ==
    IF sizes = << >> THEN 0 ELSE Points(Head(sizes)) + SumPoints(Tail(sizes))

(* C7: a frame adds to score exactly the points of the asteroids it        *)
(* destroyed, 20 for a large, 50 for a medium and 100 for a small one, by  *)
(* bullet or by ship and in every game phase; a reset() sets score to 0;   *)
(* no other step changes score.                                            *)
C7_ScorePerDestruction ==
    [][ /\ FrameStep => score' = score + SumPoints(pass'.destroyed)
        /\ ResetStep => score' = 0
        /\ (~FrameStep /\ ~ResetStep) => score' = score
      ]_vars

C7_Witness ==
    /\ pass.op = "frame" /\ gameOverPending
    /\ pass.shipHits = 0 /\ pass.destroyed = <<"large">>
    /\ score = 20 + 20 + 20 + 20

----------------------------------------------------------------------------
(* checkExtraLife at sample scores s and watermarks 10000*k <= s: it adds  *)
(* floor(s/10000) - k lives, sets the watermark to 10000*floor(s/10000),   *)
(* and applied again changes nothing.                                      *)
ScoreSamples == {0, 20, 9000, 9999, 10000, 10040, 19990, 20000, 21000, 30050}

AtScore(s, last, n) ==
    [BlankGame EXCEPT !.score = s, !.lastExtraLifeScore = last, !.lives = n]

C8_CheckExtraLifeContract ==
    \A s \in ScoreSamples, k \in 0..3, n \in 1..3 :
        (EXTRA_LIFE_SCORE * k <= s) =>
            LET g == checkExtraLife(AtScore(s, EXTRA_LIFE_SCORE * k, n))
            IN /\ g.lives = n + (s \div EXTRA_LIFE_SCORE) - k
               /\ g.lastExtraLifeScore = EXTRA_LIFE_SCORE * (s \div EXTRA_LIFE_SCORE)
               /\ g.score = s
               /\ checkExtraLife(g) = g

(* C8: checkExtraLife raises lives by floor(score/10000) minus             *)
(* floor(lastExtraLifeScore/10000) and sets lastExtraLifeScore to          *)
(* 10000*floor(score/10000) (9000 -> 21000 gives +2 and 20000), and a      *)
(* second call changes nothing; in every state lastExtraLifeScore is       *)
(* 10000*floor(score/10000), and a frame changes lives by the thresholds   *)
(* score crossed minus the ship's hits.                                    *)
C8_ExtraLifePerThreshold ==
    /\ [](C8_CheckExtraLifeContract)
    /\ [](lastExtraLifeScore = EXTRA_LIFE_SCORE * (score \div EXTRA_LIFE_SCORE))
    /\ [][ FrameStep =>
             lives' = lives - pass'.shipHits
                      + (score' \div EXTRA_LIFE_SCORE) - (score \div EXTRA_LIFE_SCORE)
         ]_vars

C8_Witness ==
    /\ pass.op = "frame" /\ pass.destroyed # << >>
    /\ score >= EXTRA_LIFE_SCORE /\ lastExtraLifeScore = EXTRA_LIFE_SCORE
    /\ lives = INITIAL_LIVES + 1

----------------------------------------------------------------------------
(* C9: highScore is 7500 in the state the constructor leaves, no step      *)
(* lowers it, a frame that destroyed an asteroid leaves it the larger of   *)
(* its old value and the new score, and reset() leaves it unchanged.       *)
C9_HighScore ==
    /\ [](pass.op = "none" => highScore = 7500)
    /\ [][ /\ highScore' >= highScore
           /\ (FrameStep /\ pass'.destroyed # << >>)
                => /\ highScore' >= score'
                   /\ highScore' = (IF score' > highScore THEN score' ELSE highScore)
           /\ ResetStep => highScore' = highScore
         ]_vars

C9_Witness ==
    /\ pass.op = "reset" /\ score = 0 /\ highScore > 7500

----------------------------------------------------------------------------
(* The destructions of a frame made while gameOverPending was true are its *)
(* last Unsplit ones: all of them when the frame began that way, else the  *)
(* ship's hits that left lives at 0 or below.                              *)
Count(sizes, size) == Cardinality({j \in 1..Len(sizes) : sizes[j] = size})

Unsplit ==
    IF gameOverPending THEN Len(pass'.destroyed)
    ELSE IF gameOverPending' THEN Min2(pass'.shipHits, 1 - lives')
    ELSE 0

SplitOnes == SubSeq(pass'.destroyed, 1, Len(pass'.destroyed) - Unsplit)

----------------------------------------------------------------------------
(* Asteroid arrays and wave numbers createNewWave is applied to *)
WaveSamples == 1..6

RockSamples ==
    { << >>, <<"small">>, <<"large", "medium">>,
      <<"large", "large", "large", "large", "medium", "small">> }

AllLarge(rocks, n) ==
    Len(rocks) = n /\ \A j \in 1..Len(rocks) : rocks[j] = "large"

(* C11: createNewWave, for wave n >= 1 and whatever asteroids exist,       *)
(* leaves exactly 3 + n asteroids, all large, and initialAsteroidCount =   *)
(* 3 + n; so it is after every wave-creation callback and every completed  *)
(* reset().                                                                *)
C11_WaveSize ==
    /\ \A n \in WaveSamples, rocks \in RockSamples :
          LET g == createNewWave([BlankGame EXCEPT !.wave = n, !.asteroids = rocks])
          IN AllLarge(g.asteroids, 3 + n) /\ g.initialAsteroidCount = 3 + n
    /\ pass.op \in {"wave", "resetDone"}
          => AllLarge(asteroids, 3 + wave) /\ initialAsteroidCount = 3 + wave

C11_Witness ==
    /\ pass.op = "wave" /\ ~pass.stale /\ wave = 2
    /\ Len(asteroids) = 5

----------------------------------------------------------------------------
(* a wave-creation callback of the current session is pending *)
WaveDelayRunning ==
    \E j \in 1..Len(timers) : timers[j].kind = "wave" /\ ~timers[j].stale

----------------------------------------------------------------------------
(* a beat-resume callback of the current session is pending *)
BeatDelayRunning ==
    \E j \in 1..Len(timers) : timers[j].kind = "beat" /\ ~timers[j].stale

(* C13: the frame that clears a wave leaves the beat stopped; the beat is  *)
(* not running while the wave-creation callback or the beat-resume         *)
(* callback that follows it is pending; the beat-resume callback starts    *)
(* it, unless gameOverPending or gameOver is true when it runs.            *)
C13_BeatSilentInWaveDelay ==
    /\ []((WaveDelayRunning \/ BeatDelayRunning) => ~beatOn)
    /\ [][ /\ (FrameStep /\ wave' = wave + 1) => ~beatOn'
           /\ (FiredStep("beat") /\ ~pass'.stale)
                => (beatOn' <=> (~gameOver /\ ~gameOverPending))
         ]_vars

----------------------------------------------------------------------------
(* C14: from the fatal hit until reset(), that is while gameOverPending or *)
(* gameOver is true, the ship takes no further part: no step but reset()   *)
(* changes lives, adds a bullet, changes the ship or resolves a            *)
(* ship-asteroid collision.                                                *)
C14_ShipOutAfterFatalHit ==
    [][ ((gameOverPending \/ gameOver) /\ ~ResetStep)
              => /\ lives' = lives
                 /\ Len(bullets') <= Len(bullets)
                 /\ ship' = ship
                 /\ pass'.shipHits = 0
      ]_vars

----------------------------------------------------------------------------
(* The states of the ship *)
Flying(s) == s.visible /\ ~s.isDisintegrating
Disintegrating(s) == s.isDisintegrating
Hidden(s) == ~s.visible /\ ~s.isDisintegrating /\ s.pieces = 0

(* the game-over callback of the current session is due within ms *)
GameOverDueWithin(ms) ==
    \E j \in 1..Len(timers) :
       timers[j].kind = "gameOver" /\ ~timers[j].stale /\ timers[j].remaining <= ms

(* C15: after a fatal hit the ship is never Flying before reset(); once    *)
(* DISINTEGRATION_TIME of frames has passed since the hit (the game-over   *)
(* callback is due within GAME_OVER_DELAY - DISINTEGRATION_TIME, or has    *)
(* run) the disintegration is over and the ship is hidden, without         *)
(* fragments.                                                              *)
C15_FatalHitHidesShip ==
    /\ gameOverPending => ~Flying(ship)
    /\ (gameOverPending /\ GameOverDueWithin(GAME_OVER_DELAY - DISINTEGRATION_TIME))
          => Hidden(ship)
    /\ (gameOver /\ lives <= 0) => Hidden(ship)

----------------------------------------------------------------------------
ShipState(s) ==
    IF Disintegrating(s) THEN "Disintegrating"
    ELSE IF s.visible THEN "Flying" ELSE "Hidden"

(* what a step that is not reset() does to a ship that has lives left *)
RespawnCycle(moves) ==
        (~ResetStep /\ ~gameOverPending')
          => LET a == ShipState(ship)
                 b == ShipState(ship')
             IN /\ a # b => <<a, b>> \in moves
                /\ (a # b /\ b = "Disintegrating") => pass'.shipHits > 0
                /\ Disintegrating(ship') => ~ship'.thrust
                /\ <<a, b>> = <<"Disintegrating", "Hidden">>
                     => /\ ship'.disintegrationTimer >= DISINTEGRATION_TIME
                        /\ ship'.respawnTimer = RESPAWN_DELAY
                /\ <<a, b>> = <<"Hidden", "Flying">>
                     => \A dt \in DeltaTimes :
                           LET s == updateDisintegration(ship, dt)
                           IN /\ Flying(s) /\ ~s.thrust /\ s.isInvulnerable
                              /\ s.invulnerabilityTimer = INVULNERABILITY_TIME

(* C16: after a non-fatal hit the ship is Disintegrating (thrust cleared)  *)
(* for DISINTEGRATION_TIME of ticks, then Hidden for RESPAWN_DELAY, then   *)
(* Flying, and makes no other transition; the tick that makes it Flying    *)
(* resets it: visible, no thrust, isInvulnerable with                      *)
(* invulnerabilityTimer = INVULNERABILITY_TIME.                            *)
C16_RespawnCycle ==
    [][RespawnCycle({ <<"Flying", "Disintegrating">>, <<"Disintegrating", "Hidden">>,
                      <<"Hidden", "Flying">> })]_vars

----------------------------------------------------------------------------
(* C17: while paused is true, no step but reset() (and its continuation)   *)
(* changes score, lives, wave, gameOver, gameOverPending, the asteroids,   *)
(* the bullets or the ship; that includes the callbacks scheduled before   *)
(* stop().                                                                 *)
C17_PausedFreezesGame ==
    [][ (paused /\ ~ResetStep /\ pass'.op # "resetDone")
          => UNCHANGED <<score, lives, wave, gameOver, gameOverPending,
                         asteroids, bullets, ship>>
      ]_vars

----------------------------------------------------------------------------
----------------------------------------------------------------------------
(* C19: shootTimer increases only in a successful shot, which sets it to   *)
(* SHOOT_DELAY; shoot() returns a bullet only when shootTimer <= 0; a      *)
(* successful shot comes after at least SHOOT_DELAY of ticks since the     *)
(* previous one.                                                           *)
C19_ShootCooldown ==
    /\ [](shoot(ship).bullet # << >> => ship.shootTimer <= 0)
    /\ [][ /\ ship'.shootTimer > ship.shootTimer
                => pass'.op = "shot" /\ ship'.shootTimer = SHOOT_DELAY
           /\ pass'.op = "shot"
                => sinceShot >= SHOOT_DELAY /\ ship'.shootTimer = SHOOT_DELAY
         ]_vars

(* shoot() called 150 ms of ticks after a shot has returned no bullet *)
C19_Witness ==
    /\ pass.op = "noshot" /\ Flying(ship)
    /\ sinceShot = 150 /\ ship.shootTimer = SHOOT_DELAY - 150

(* C20: shoot() on a ship that is disintegrating or invisible returns no   *)
(* bullet and leaves the ship, shootTimer included, as it was.             *)
C20_NoShotWhileOut ==
    /\ []((ship.isDisintegrating \/ ~ship.visible)
            => shoot(ship) = [ship |-> ship, bullet |-> << >>])
    /\ [][ (pass'.op \in {"shot", "noshot"} /\ (ship.isDisintegrating \/ ~ship.visible))
              => pass'.op = "noshot" /\ ship' = ship
         ]_vars

(* shoot() was refused on a disintegrating ship whose cooldown had run out *)
C20_Witness ==
    pass.op = "noshot" /\ ship.isDisintegrating /\ ship.shootTimer <= 0

----------------------------------------------------------------------------
(* C21: after construction and after reset() (at its await and when it has *)
(* completed) the ship is invulnerable with invulnerabilityTimer =         *)
(* INVULNERABILITY_TIME, and the first frame of the new session, with      *)
(* whatever overlaps the ship, costs no life.                              *)
C21_NewSessionInvulnerable ==
    /\ [](pass.op \in {"none", "reset", "keydown", "resetDone"}
            => /\ ship.isInvulnerable
               /\ ship.invulnerabilityTimer = INVULNERABILITY_TIME)
    /\ [][(pass.op = "resetDone" /\ FrameStep) => lives' = lives]_vars

----------------------------------------------------------------------------
(* C22: every update of a bullet (non-zero velocity, dt > 0) strictly      *)
(* increases distanceTraveled, also when the bullet wraps; it leaves       *)
(* isDead true exactly if distanceTraveled has reached                     *)
(* min(width, height) * 0.95, and isDead never turns false again.          *)
C22_DistanceGrows ==
    [][ pass'.op = "bullet"
          => /\ bullets'[1].distanceTraveled > bullets[1].distanceTraveled
             /\ bullets'[1].isDead <=> bullets'[1].distanceTraveled >= MaxDistance
             /\ bullets[1].isDead => bullets'[1].isDead
      ]_vars

(* C23: on a tick in which the bullet leaves the screen the distance added *)
(* for that axis is the distance from the old position to that edge, and   *)
(* the distance a bullet has covered on the screen stays below             *)
(* min(width, height): it is dead before it completes a lap.               *)
C23_NoFullLap ==
    /\ [][ pass'.op = "bullet"
            => \A dt \in BulletTicks :
                 LET b == bullets[1]
                     b1 == updatePosition(b, dt)
                     added == bullets'[1].distanceTraveled - b.distanceTraveled
                 IN bullets'[1] = BulletFlight(b, dt, CanvasWidth, CanvasHeight)
                      => /\ (b1.x > CanvasWidth /\ b.velocity.y = 0)
                               => added = CanvasWidth - b.x
                         /\ (b1.x < 0 /\ b.velocity.y = 0) => added = b.x
                         /\ (b1.y > CanvasHeight /\ b.velocity.x = 0)
                               => added = CanvasHeight - b.y
                         /\ (b1.y < 0 /\ b.velocity.x = 0) => added = b.y
         ]_vars
    /\ [](bullets # << >> => bullets[1].covered < Min2(CanvasWidth, CanvasHeight))


----------------------------------------------------------------------------
(* Properties of the AudioManager *)

PoolsComplete(a) == \A key \in SoundKeys : Len(a.pools[key]) = soundConfig[key]

NoPool(a, key) == key \notin DOMAIN a.pools \/ a.pools[key] = << >>

C25_PoolSizeFixed ==
    /\ [](\A key \in SoundKeys : Len(audio.pools[key]) \in {0, soundConfig[key]})
    /\ [][ \A key \in SoundKeys :
             audio.pools[key] # << >>
                => Len(audio'.pools[key]) = Len(audio.pools[key]) ]_vars

C25_Witness ==
    /\ pass.op = "init"
    /\ audio.initialized
    /\ audio.started = MaxStarted
    /\ audio.sources = << >>
    /\ Len(audio.pools["fire"]) = 4
    /\ Len(audio.pools["thrust"]) = 2

(* the voice a playSound step started: the one of the newest source *)
Chosen(a) == a.sources[Len(a.sources)].voice

VoiceChoice(key) ==
    LET pool == audio.pools[key]
        free == {v \in 1..Len(pool) : ~pool[v].isPlaying}
        chosen == Chosen(audio')
    IN /\ free # {} => chosen \in free
       /\ free = {} => \A u \in 1..Len(pool) : pool[chosen].startTime <= pool[u].startTime
       /\ audio'.pools[key][chosen] = [isPlaying |-> TRUE, startTime |-> audio.now]
       /\ \A u \in 1..Len(pool) : u # chosen => audio'.pools[key][u] = pool[u]

(* a voice whose newest playback is still running is marked playing *)
PlayingWhileSounding(a) ==
    \A i \in 1..Len(a.sources) :
       LET s == a.sources[i]
       IN ~s.stopped /\ CurrentSource(a, s.key, s.voice) = i
             => a.pools[s.key][s.voice].isPlaying

(* C26: with an audio context, playSound(key) on a pool with voices starts *)
(* a voice that is not playing if there is one, else one with the smallest *)
(* start time, marks it playing with the current time and leaves the other *)
(* voices alone; and a voice stays marked playing until the playback last  *)
(* started on it has ended or was stopped.                                 *)
C26_VoiceLifecycle ==
    /\ [][ \A key \in PlayKeys \cap SoundKeys :
             /\ pass'.op = "play"
             /\ ~audio.isTest
             /\ ~NoPool(audio, key)
             /\ audio' = playSound(audio, key)
             => VoiceChoice(key) ]_vars
    /\ [](~audio.isTest => PlayingWhileSounding(audio))

(* C27: startBackgroundBeat plays beat1, and while the beat runs no tone is *)
(* played twice in a row, whether the next one comes from the beat timer   *)
(* or from updateBeatInterval after an asteroid was destroyed.             *)
C27_BeatsAlternate ==
    /\ [][pass'.op = "beatStart" => audio'.tones = <<"beat1">>]_vars
    /\ [](Len(audio.tones) = 2 => audio.tones[1] # audio.tones[2])

(* the thrust timers that are running, of the current AudioManager and of *)
(* the ones reset() replaced                                               *)
ThrustTimers ==
    (IF audio.thrustTimer THEN 1 ELSE 0)
      + Cardinality({i \in 1..Len(replaced) : replaced[i].thrustTimer})

ThrustFollowsInput ==
    /\ ~ship.thrust /\ ship'.thrust => audio' = playThrustSound(audio)
    /\ ship.thrust /\ ~ship'.thrust => audio' = stopThrustSound(audio)
    /\ ship.thrust = ship'.thrust => audio'.thrustTimer = audio.thrustTimer
    /\ gameOverPending \/ gameOver => audio' = audio

(* C28: a frame in which ship.thrust rises calls playThrustSound, one in    *)
(* which it falls (key released, or the ship hit while thrusting) calls    *)
(* stopThrustSound, no other frame touches the thrust timer and none does  *)
(* while the game is over or about to be; between frames at most one       *)
(* thrust timer runs, and only while ship.thrust is true.                  *)
C28_ThrustSoundFollowsInput ==
    /\ [][FrameStep => ThrustFollowsInput]_vars
    /\ [](ThrustTimers <= 1 /\ (ThrustTimers > 0 => ship.thrust))

----------------------------------------------------------------------------
(* Properties of asteroids and collisions *)

AngleBetween(a, b) ==
    LET d == (a - b) % 360 IN IF d > 180 THEN 360 - d ELSE d

ChildOf(child, parent) ==
    /\ 2 * child.velocity.speed = 3 * parent.velocity.speed
    /\ AngleBetween(child.velocity.angle, parent.velocity.angle) <= angleVariance

(* C29: the two asteroids a destroyed large or medium one leaves each move *)
(* at 1.5 times its speed in a direction within 45 degrees of its own, and *)
(* a small asteroid moves at 2.25 times the speed of the large one it      *)
(* comes from.                                                             *)
C29_ChildVelocity ==
    /\ [][ pass'.op = "split" /\ asteroids[pass'.overlap].rock.size # "small"
            => LET parent == asteroids[pass'.overlap].rock
                   n == Len(asteroids) - 1
               IN /\ Len(asteroids') = n + 2
                  /\ ChildOf(asteroids'[n + 1].rock, parent)
                  /\ ChildOf(asteroids'[n + 2].rock, parent) ]_vars
    /\ [](\A j \in 1..Len(asteroids) :
             asteroids[j].rock.size = "small"
                => 4 * asteroids[j].rock.velocity.speed = 9 * asteroids[j].root)

(* two small asteroids of one medium one, sent different ways *)
C29_Witness ==
    /\ pass.op = "split"
    /\ Len(asteroids) >= 2
    /\ LET n == Len(asteroids)
       IN /\ asteroids[n].rock.size = "small"
          /\ asteroids[n - 1].rock.size = "small"
          /\ asteroids[n].rock.velocity.speed = 225
          /\ asteroids[n].rock.velocity.angle = 88
          /\ asteroids[n - 1].rock.velocity.angle = -1

SquaredDistance(a, b) == (a.x - b.x) * (a.x - b.x) + (a.y - b.y) * (a.y - b.y)

Reach(a, b) == (a.radius + b.radius) * (a.radius + b.radius)

(* C30: checkCollision answers true exactly for two circles whose centres  *)
(* are closer than the sum of their radii (not for circles that touch),    *)
(* the same whichever is given first, and leaves both as they were.        *)
C30_CollisionIsStrictOverlap ==
    /\ [](pass.op = "collide"
            => /\ pass.overlap = 1
                    <=> SquaredDistance(bullets[1], asteroids[1]) < Reach(bullets[1], asteroids[1])
               /\ pass.shipHits = pass.overlap)
    /\ [][pass'.op = "collide" => UNCHANGED <<bullets, asteroids>>]_vars

(* the ship's circle touching a medium asteroid: no collision *)
C30_Witness ==
    /\ pass.op = "collide"
    /\ pass.overlap = 0
    /\ bullets[1].radius = 15
    /\ asteroids[1].radius = 20
    /\ SquaredDistance(bullets[1], asteroids[1]) = Reach(bullets[1], asteroids[1])

----------------------------------------------------------------------------
(* Properties of one collision pass *)

(* C31: in a frame in which the ship is not hit, the asteroids destroyed   *)
(* are no more than the bullets in the array, each is removed and scored   *)
(* once, and a bullet that was already dead when the pass began (expired   *)
(* in this frame's update) destroys none.                                  *)
C31_NoDoubleMatch ==
    [][ FrameStep /\ pass'.shipHits = 0
          => /\ Len(pass'.destroyed) <= Len(bullets')
             /\ score' - score = SumPoints(pass'.destroyed)
             /\ (\A b \in 1..Len(bullets') : bullets'[b].dist >= MaxDistance)
                   => pass'.destroyed = << >> ]_vars

(* C32: the ship is flying (visible, whole), disintegrating (visible, in   *)
(* fragments) or hidden (invisible, whole): it never disintegrates while   *)
(* invisible and has fragments exactly while it disintegrates.             *)
C32_ShipThreeStates ==
    /\ ship.isDisintegrating => ship.visible
    /\ ship.pieces > 0 <=> ship.isDisintegrating

----------------------------------------------------------------------------
(* Properties of the beat interval *)

(* C33: after every destruction the beat interval lies between             *)
(* minInterval and baseInterval, is no longer than it was before the       *)
(* destruction, and is minInterval when no asteroid remains.               *)
C33_BeatInterval ==
    [][ pass'.op = "destroy"
          => /\ minInterval <= audio'.beatInterval
             /\ audio'.beatInterval <= baseInterval
             /\ audio'.beatInterval <= audio.beatInterval
             /\ asteroids' = << >> => audio'.beatInterval = minInterval ]_vars

----------------------------------------------------------------------------
(* Properties of a bullet's life *)

(* C34: every gameLoop call of a game that is not paused brings each       *)
(* bullet nearer its end, whatever state the game is in: the bullets that  *)
(* were dead are removed and those in flight have travelled further, so    *)
(* that no bullet stays for ever.                                          *)
C34_BulletsEnd ==
    [][ FrameStep /\ ~paused
          => LET flying == SelectSeq(bullets, LAMBDA b : ~b.isDead)
             IN /\ Len(bullets') <= Len(flying) + 1
                /\ Len(bullets') >= Len(flying)
                /\ \A j \in 1..Len(flying) : bullets'[j].dist > flying[j].dist ]_vars

----------------------------------------------------------------------------
(* Properties of the screen wrap *)

(* where a coordinate that moved to `moved` must end the tick *)
Wrapped(moved, bound) ==
    IF moved < 0 THEN bound ELSE IF moved > bound THEN 0 ELSE moved

WrappedFrom(before, velocity, after, dt) ==
    /\ after.x = Wrapped(before.x + (velocity.x * dt) \div 1000, CanvasWidth)
    /\ after.y = Wrapped(before.y + (velocity.y * dt) \div 1000, CanvasHeight)

OnCanvas(obj) ==
    /\ 0 <= obj.x /\ obj.x <= CanvasWidth
    /\ 0 <= obj.y /\ obj.y <= CanvasHeight

(* C35: after an update tick the ship, each bullet and each asteroid is    *)
(* where one wrap policy puts it: a coordinate moved below 0 is at the     *)
(* bound, one moved above the bound is at 0, any other is where the        *)
(* movement left it, and all of them are on the canvas.                    *)
C35_UniformWrap ==
    [][ pass'.op = "wrap"
          => LET dt == pass'.overlap
             IN /\ WrappedFrom(ship, ship.velocity, ship', dt)
                /\ \A j \in 1..Len(bullets') :
                      WrappedFrom(bullets[j], bullets[j].velocity, bullets'[j], dt)
                /\ \A j \in 1..Len(asteroids') :
                      WrappedFrom(asteroids[j], asteroids[j].velocity, asteroids'[j], dt)
                /\ OnCanvas(ship')
                /\ \A j \in 1..Len(bullets') : OnCanvas(bullets'[j])
                /\ \A j \in 1..Len(asteroids') : OnCanvas(asteroids'[j]) ]_vars

----------------------------------------------------------------------------
(* Properties of the death sequence *)

(* C36: whenever the ship is disintegrating or hidden it is invulnerable,  *)
(* and a frame that begins with the ship disintegrating or hidden hits the *)
(* ship with no asteroid and lowers lives by nothing.                      *)
C36_DeathSequenceInvulnerable ==
    /\ []((ship.isDisintegrating \/ ~ship.visible) => ship.isInvulnerable)
    /\ [][ (FrameStep /\ (ship.isDisintegrating \/ ~ship.visible))
            => /\ pass'.shipHits = 0
               /\ lives' >= lives ]_vars

----------------------------------------------------------------------------
(* Properties of the game-over timer *)

GameOverTimers == {j \in 1..Len(timers) : timers[j].kind = "gameOver"}

(* C37: at most one game-over timer is pending, lives is never below 0,    *)
(* and the game-over callback never runs in a game that is already over.   *)
C37_OneGameOverTimer ==
    /\ [](Cardinality(GameOverTimers) <= 1 /\ lives >= 0)
    /\ [][pass'.op = "gameOver" => ~gameOver]_vars

----------------------------------------------------------------------------
(* Properties of the ended callbacks *)

(* the voices of the sources that were started, not stopped and have not  *)
(* ended are marked playing in b if they were in a                         *)
KeepsSoundingVoices(a, b) ==
    \A i \in 1..Len(b.sources) :
       LET s == b.sources[i]
       IN ~s.stopped /\ a.pools[s.key][s.voice].isPlaying
             => b.pools[s.key][s.voice].isPlaying

(* every source that was started, not stopped and has not ended sounds on *)
(* a voice marked playing                                                  *)
FreeVoicesSilent(a) ==
    \A i \in 1..Len(a.sources) :
       LET s == a.sources[i]
       IN ~s.stopped => a.pools[s.key][s.voice].isPlaying

(* C38: the ended callback of a source never marks its voice free while a  *)
(* playback started on that voice is still in flight, so that a voice      *)
(* marked not playing has no playback in flight.                           *)
C38_FlagFollowsLatestPlayback ==
    /\ [][(pass'.op = "ended" /\ ~audio.isTest) => KeepsSoundingVoices(audio, audio')]_vars
    /\ [](~audio.isTest => FreeVoicesSilent(audio))

----------------------------------------------------------------------------
(* Properties of a wave's asteroids *)

Weight(rocks) ==
    4 * Count(rocks, "large") + 2 * Count(rocks, "medium") + Count(rocks, "small")

(* the destructions it takes to clear the asteroids, and the points they  *)
(* are worth                                                               *)
DestructionsLeft(rocks) ==
    7 * Count(rocks, "large") + 3 * Count(rocks, "medium") + Count(rocks, "small")

PointsLeft(rocks) ==
    520 * Count(rocks, "large") + 250 * Count(rocks, "medium") + 100 * Count(rocks, "small")

(* C39: while no game over is pending, a wave n begins with weight         *)
(* 4 * (3 + n); every later step of it lowers the weight by the number of  *)
(* small asteroids it destroyed, the destructions left by the number of    *)
(* asteroids it destroyed and the points left by the points it scored, so  *)
(* that the wave takes 7 * (3 + n) destructions and 520 * (3 + n) points.  *)
C39_WaveWeight ==
    [][ (~ResetStep /\ ~gameOver /\ ~gameOverPending')
          => IF asteroids = << >> /\ asteroids' # << >>
             THEN Weight(asteroids') = 4 * (3 + wave')
             ELSE /\ Weight(asteroids') = Weight(asteroids) - Count(pass'.destroyed, "small")
                  /\ DestructionsLeft(asteroids')
                        = DestructionsLeft(asteroids) - Len(pass'.destroyed)
                  /\ score' + PointsLeft(asteroids') = score + PointsLeft(asteroids) ]_vars

----------------------------------------------------------------------------
(* Properties of reset() and the game loop *)

(* C40: no gameLoop call and no timer callback runs while a reset() is     *)
(* suspended at its await, and the wave creation that ends a reset()       *)
(* finds no asteroids to replace.                                          *)
C40_ResetAtomic ==
    [][ /\ (FrameStep \/ FiredStep("gameOver") \/ FiredStep("wave") \/ FiredStep("beat"))
            => pendingResets = 0
        /\ pass'.op = "resetDone" => asteroids = << >> ]_vars

====
